---- MODULE Spec2Model ----
(***************************************************************************)
(* Model of examples/cow_sphere.rs: the per-tick update loop of the game   *)
(* server (admission under MAX_PLAYERS, binding of a player entity to      *)
(* each client, the player list, teardown of disconnected clients, the    *)
(* dispatch of client events onto the player entity, and the placing of    *)
(* the cows).                                                              *)
(***************************************************************************)
EXTENDS Integers, Sequences, FiniteSets, TLC

VARIABLES
    player_count,   \* Game::player_count (AtomicUsize)
    clients,        \* server.clients, in iteration order
    entities,       \* server.entities: EntityId -> entity record
    player_list,    \* the player list of server.state.player_list: set of UUIDs
    nextSid,        \* the next tag to give a client
    panicked,       \* an expect() of the update failed
    ndisc,          \* transport disconnects so far
    nevents,        \* client events enqueued so far
    log,            \* what the update that just ran did, one record per client it acted on
    everActive,     \* tags of the clients that were ever bound to a player entity
    releases,       \* tag -> number of fetch_sub calls made for clients of that tag
    thr,            \* concurrent callers of the admission counter: where each is in
                    \* fetch_update, the value it loaded, how its last step ended
    outstanding,    \* admissions granted to concurrent callers and not yet released
    cows,           \* server.state.cows: the handles of the cows, in order
    current_tick,   \* server.shared.current_tick()
    formed,         \* what the update of the cows that just ran was given
    pc,             \* where Game::update is, when it is followed call by call
    cur,            \* the place in server.clients of the client retain is at
    calls           \* the call of client_event_boilerplate that just returned

vars == << player_count, clients, entities, player_list, nextSid, panicked, ndisc,
           nevents, log, everActive, releases, thr, outstanding, cows,
           current_tick, formed, pc, cur, calls >>

\* What only the update of the cows and the call-by-call update read or write.
TickVars == << cows, current_tick, pc, cur >>

(***************************************************************************)
(* Program constants                                                       *)
(***************************************************************************)
MAX_PLAYERS == 10

\* AtomicUsize arithmetic wraps; the width is scaled down to what TLC's
\* integers can hold.
UsizeRange == 2 ^ 30

\* WorldId::NULL / EntityId::NULL and the one world created by init.
NULL == 0
world_id == 1

(***************************************************************************)
(* Bounds of the model                                                     *)
(***************************************************************************)
MaxPending == 1        \* clients created in one tick in Spec
MaxDisconnects == 1    \* transport disconnects in a run
MaxRepeat == 1         \* UUIDs that connect more than once in Spec
MaxArrivals == 3       \* clients surfaced in a run of SpecSmall
NumUuids == 2          \* identities in SpecSmall
MaxSessions == 2       \* clients surfaced, one after the other, in a run of SpecEvents
MaxEvents == 2         \* client events enqueued in a run of SpecEvents
NumThreads == 2        \* concurrent callers in SpecAdmit
MaxBatch == 2          \* clients created in one tick in SpecBatch
MaxClients == 2        \* clients connected at a time in SpecLoop
MaxQueue == 2          \* events waiting in the queue of a client in SpecLoop
MaxCows == 2           \* cows of the server in SpecCows (Game::init makes 200)
MaxTick == 1           \* ticks the server counts in SpecCows

(***************************************************************************)
(* Values                                                                  *)
(***************************************************************************)
SkinParts == {"cape", "jacket", "left_sleeve", "right_sleeve",
              "left_pants_leg", "right_pants_leg", "hat"}

\* MainHand as u8
Left == 0
Right == 1

\* TrackedData::Player of a new entity, and Client::player of a new client.
DefaultPlayer == [skin |-> {}, main_arm |-> Right]

SPAWN_POS == << 0, 100, -25 >>

\* SPAWN_POS + (0.5, 1.0, 0.5), in halves of a block
SpawnPoint == << 2 * SPAWN_POS[1] + 1, 2 * SPAWN_POS[2] + 2, 2 * SPAWN_POS[3] + 1 >>

OtherPoint == << 7, 202, -49 >>

Origin == << 0, 0, 0 >>

\* Pose: the two poses the program sets, and two of the others.
Poses == {"Standing", "Sneaking", "Swimming", "Sleeping"}

(***************************************************************************)
(* Client events (ClientEvent), with small sample payloads                 *)
(***************************************************************************)
NoPayloadKinds == {"ChatMessage", "MoveVehicle", "StartSneaking", "StopSneaking",
                   "StartSprinting", "StopSprinting", "StartJumpWithHorse",
                   "StopJumpWithHorse", "LeaveBed", "OpenHorseInventory",
                   "StartFlyingWithElytra", "InteractWithEntity", "SteerBoat",
                   "Digging"}

ClientEvents ==
    [kind : NoPayloadKinds]
    \cup {[kind |-> "SettingsChanged", view_distance |-> 8, main_hand |-> Left,
           displayed_skin_parts |-> SkinParts],
          [kind |-> "SettingsChanged", view_distance |-> 8, main_hand |-> Right,
           displayed_skin_parts |-> {"cape", "hat"}]}
    \cup [kind : {"MovePosition"}, position : {OtherPoint}, on_ground : {TRUE}]
    \cup [kind : {"MovePositionAndRotation"}, position : {OtherPoint}, yaw : {90},
          pitch : {45}, on_ground : {FALSE}]
    \cup [kind : {"MoveRotation"}, yaw : {180}, pitch : {30}, on_ground : {TRUE}]
    \cup [kind : {"MoveOnGround"}, on_ground : BOOLEAN]
    \cup [kind : {"ArmSwing"}, hand : {"Main", "Off"}]

(***************************************************************************)
(* The registry of entities (server.entities)                              *)
(***************************************************************************)
\* A new entity of the given kind.
NewEntity(kind, uuid) ==
    [uuid |-> uuid, kind |-> kind, world |-> NULL, position |-> Origin,
     yaw |-> 0, head_yaw |-> 0, pitch |-> 0, on_ground |-> FALSE,
     player |-> DefaultPlayer, pose |-> "Standing", sprinting |-> FALSE,
     events |-> << >>]

\* The handle of the next entity: the lowest free slot.
FreshId(ents) == CHOOSE i \in 1..(Cardinality(DOMAIN ents) + 1) : i \notin DOMAIN ents

\* Entities::insert_with_uuid: None (NULL here) when the UUID is already in use.
InsertedAs(ents, kind, uuid, id) ==
    [id |-> id,
     entities |-> [i \in DOMAIN ents \cup {id} |->
                      IF i = id THEN NewEntity(kind, uuid) ELSE ents[i]]]

insert_with_uuid(ents, kind, uuid) ==
    IF \E i \in DOMAIN ents : ents[i].uuid = uuid
    THEN [id |-> NULL, entities |-> ents]
    ELSE InsertedAs(ents, kind, uuid, FreshId(ents))

\* Entities::remove
remove_entity(ents, id) == [i \in DOMAIN ents \ {id} |-> ents[i]]

(***************************************************************************)
(* client_event_boilerplate: the effect of one event                       *)
(***************************************************************************)
\* SettingsChanged on the client's own Player data
SettingsOnClient(client, ev) ==
    [client EXCEPT !.view_distance = ev.view_distance,
                   !.player = [skin |-> ev.displayed_skin_parts,
                               main_arm |-> ev.main_hand]]

\* SettingsOnEntity without the set_main_arm of the entity.
SettingsOnEntityNoArm(entity, ev) ==
    IF entity.kind = "Player"
    THEN [entity EXCEPT !.player.skin = ev.displayed_skin_parts]
    ELSE entity

\* SettingsChanged on the entity's TrackedData::Player
SettingsOnEntity(entity, ev) ==
    IF entity.kind = "Player"
    THEN [entity EXCEPT !.player = [skin |-> ev.displayed_skin_parts,
                                    main_arm |-> ev.main_hand]]
    ELSE entity

\* ClientEvent::MovePosition
MovePosition(entity, ev) ==
    [entity EXCEPT !.position = ev.position, !.on_ground = ev.on_ground]

\* ClientEvent::MovePositionAndRotation
MovePositionAndRotation(entity, ev) ==
    [entity EXCEPT !.position = ev.position, !.yaw = ev.yaw,
                   !.head_yaw = ev.yaw, !.pitch = ev.pitch,
                   !.on_ground = ev.on_ground]

\* MoveRotation without its set_head_yaw.
MoveRotationNoHeadYaw(entity, ev) ==
    [entity EXCEPT !.yaw = ev.yaw, !.pitch = ev.pitch, !.on_ground = ev.on_ground]

\* ClientEvent::MoveRotation
MoveRotation(entity, ev) ==
    [entity EXCEPT !.yaw = ev.yaw, !.head_yaw = ev.yaw,
                   !.pitch = ev.pitch, !.on_ground = ev.on_ground]

\* ClientEvent::MoveOnGround
MoveOnGround(entity, ev) == [entity EXCEPT !.on_ground = ev.on_ground]

\* ClientEvent::StartSneaking
StartSneaking(entity) ==
    IF entity.kind = "Player" /\ entity.pose = "Standing"
    THEN [entity EXCEPT !.pose = "Sneaking"] ELSE entity

\* StopSneaking without the test of the pose.
StopSneakingAlways(entity) ==
    IF entity.kind = "Player" THEN [entity EXCEPT !.pose = "Standing"] ELSE entity

\* ClientEvent::StopSneaking
StopSneaking(entity) ==
    IF entity.kind = "Player" /\ entity.pose = "Sneaking"
    THEN [entity EXCEPT !.pose = "Standing"] ELSE entity

\* ArmSwing with the two hands taken for each other.
ArmSwingSwapped(entity, ev) ==
    [entity EXCEPT !.events = Append(@, IF ev.hand = "Main"
                                        THEN "SwingOffHand"
                                        ELSE "SwingMainHand")]

\* ClientEvent::ArmSwing
ArmSwing(entity, ev) ==
    [entity EXCEPT !.events = Append(@, IF ev.hand = "Main"
                                        THEN "SwingMainHand"
                                        ELSE "SwingOffHand")]

\* The match on the event: the entity after it.
EventOnEntity(entity, ev) ==
    CASE ev.kind = "SettingsChanged" -> SettingsOnEntity(entity, ev)
      [] ev.kind = "MovePosition" -> MovePosition(entity, ev)
      [] ev.kind = "MovePositionAndRotation" -> MovePositionAndRotation(entity, ev)
      [] ev.kind = "MoveRotation" -> MoveRotation(entity, ev)
      [] ev.kind = "MoveOnGround" -> MoveOnGround(entity, ev)
      [] ev.kind = "StartSneaking" -> StartSneaking(entity)
      [] ev.kind = "StopSneaking" -> StopSneaking(entity)
      [] ev.kind = "StartSprinting" ->
            IF entity.kind = "Player" THEN [entity EXCEPT !.sprinting = TRUE] ELSE entity
      [] ev.kind = "StopSprinting" ->
            IF entity.kind = "Player" THEN [entity EXCEPT !.sprinting = FALSE] ELSE entity
      [] ev.kind = "ArmSwing" -> ArmSwing(entity, ev)
      [] OTHER -> entity

\* The match on the event: the client after it.
EventOnClient(client, ev) ==
    IF ev.kind = "SettingsChanged" THEN SettingsOnClient(client, ev) ELSE client

\* One call that found an event: the event is popped from the front of the
\* queue, applied, and the entity's world is set to the client's.
SetWorld(c2, e2, ev) ==
    [client |-> c2, entity |-> [e2 EXCEPT !.world = c2.world], event |-> ev]

Dispatch(popped, entity, ev) ==
    SetWorld(EventOnClient(popped, ev), EventOnEntity(entity, ev), ev)

\* Client::pop_event: the oldest event of the queue, and the client without it.
pop_event(client) == [event |-> Head(client.events),
                      client |-> [client EXCEPT !.events = Tail(@)]]

Popped(p, entity) == Dispatch(p.client, entity, p.event)

client_event_boilerplate(client, entity) == Popped(pop_event(client), entity)

\* while client_event_boilerplate(client, entity).is_some() {}
RECURSIVE DrainEvents(_, _, _)
DrainNext(r, applied) == DrainEvents(r.client, r.entity, Append(applied, r.event))

\* DrainEvents with `if` for `while`: at most one event a tick.
DrainOnce(client, entity, applied) ==
    IF client.events = << >> \/ applied # << >>
    THEN [client |-> client, entity |-> entity, applied |-> applied]
    ELSE DrainNext(client_event_boilerplate(client, entity), applied)

DrainEvents(client, entity, applied) ==
    IF client.events = << >>
    THEN [client |-> client, entity |-> entity, applied |-> applied]
    ELSE DrainNext(client_event_boilerplate(client, entity), applied)

(***************************************************************************)
(* The admission counter                                                   *)
(***************************************************************************)
\* The closure given to fetch_update: (count < MAX_PLAYERS).then_some(count + 1),
\* NULL - 1 standing for None.
\* AdmitClosure with <= for <: it admits one client too many.
AdmitClosureOffByOne(count) == IF count <= MAX_PLAYERS THEN count + 1 ELSE -1

AdmitClosure(count) == IF count < MAX_PLAYERS THEN count + 1 ELSE -1

\* player_count.fetch_update(..) run by the one thread that updates the server.
TryAdmit(count) ==
    IF AdmitClosure(count) = -1
    THEN [is_err |-> TRUE, count |-> count]
    ELSE [is_err |-> FALSE, count |-> AdmitClosure(count)]

\* player_count.fetch_sub(1, SeqCst): wrapping
fetch_sub(count) == (count + UsizeRange - 1) % UsizeRange

\* Game::server_list_ping: the figures of the response
server_list_ping(count) == [online_players |-> count, max_players |-> MAX_PLAYERS]

(***************************************************************************)
(* Game::update: the closure given to server.clients.retain                *)
(***************************************************************************)
PlayerUuids(ents) == {ents[i].uuid : i \in {j \in DOMAIN ents : ents[j].kind = "Player"}}

\* Teardown without its `return false`: the client stays in server.clients.
TeardownKeeps(c, count, ents, pl) ==
    [keep |-> TRUE, outcome |-> "teardown", reason |-> "",
     client |-> c, count |-> fetch_sub(count),
     player_list |-> pl \ {c.uuid},
     entities |-> remove_entity(ents, c.state),
     released |-> 1, applied |-> << >>]

\* Teardown without server.entities.remove.
TeardownLeavesEntity(c, count, ents, pl) ==
    [keep |-> FALSE, outcome |-> "teardown", reason |-> "",
     client |-> c, count |-> fetch_sub(count),
     player_list |-> pl \ {c.uuid},
     entities |-> ents,
     released |-> 1, applied |-> << >>]

\* Teardown with a second fetch_sub.
TeardownReleasesTwice(c, count, ents, pl) ==
    [keep |-> FALSE, outcome |-> "teardown", reason |-> "",
     client |-> c, count |-> fetch_sub(fetch_sub(count)),
     player_list |-> pl \ {c.uuid},
     entities |-> remove_entity(ents, c.state),
     released |-> 1, applied |-> << >>]

\* The branch taken by a client that is disconnected.
Teardown(c, count, ents, pl) ==
    [keep |-> FALSE, outcome |-> "teardown", reason |-> "",
     client |-> c, count |-> fetch_sub(count),
     player_list |-> pl \ {c.uuid},
     entities |-> remove_entity(ents, c.state),
     released |-> 1, applied |-> << >>]

\* The client kept, d being what the loop over its events left.
Kept(c, count, ents, pl, d) ==
    [keep |-> TRUE, outcome |-> "kept", reason |-> "",
     client |-> d.client, count |-> count, player_list |-> pl,
     entities |-> [ents EXCEPT ![c.state] = d.entity],
     released |-> 0, applied |-> d.applied]

\* The rest of the closure, for a client that is not disconnected.
DrainClient(c, count, ents, pl) ==
    IF c.state \notin DOMAIN ents
    THEN [keep |-> FALSE, outcome |-> "panic", reason |-> "missing player entity",
          client |-> c, count |-> count, player_list |-> pl, entities |-> ents,
          released |-> 0, applied |-> << >>]
    ELSE Kept(c, count, ents, pl, DrainEvents(c, ents[c.state], << >>))

\* AfterCreated with the loop over the events ahead of the is_disconnected test.
DrainThenTeardown(c, count, ents, pl, d) ==
    [Teardown(d.client, count, [ents EXCEPT ![c.state] = d.entity], pl)
        EXCEPT !.applied = d.applied]

AfterCreatedDrainFirst(c, count, ents, pl) ==
    IF c.disconnected /\ c.state \in DOMAIN ents
    THEN DrainThenTeardown(c, count, ents, pl, DrainEvents(c, ents[c.state], << >>))
    ELSE DrainClient(c, count, ents, pl)

\* From `if client.is_disconnected()` to the end of the closure.
AfterCreated(c, count, ents, pl) ==
    IF c.disconnected
    THEN Teardown(c, count, ents, pl)
    ELSE DrainClient(c, count, ents, pl)

\* The client set up after its entity was inserted: spawn, set_flat,
\* set_game_mode, teleport, set_player_list.
SpawnClient(c, id) ==
    [c EXCEPT !.state = id, !.world = world_id, !.flat = TRUE,
              !.game_mode = "Creative", !.position = SpawnPoint,
              !.has_player_list = TRUE]

\* ConflictingUuid without its `return false`: the client, disconnected by
\* then, goes on into the is_disconnected branch.
ConflictFallsThrough(c, count, ents, pl) ==
    [Teardown([c EXCEPT !.disconnected = TRUE], count, ents, pl)
        EXCEPT !.outcome = "conflict", !.reason = "Conflicting UUID"]

\* The rejection of a client whose UUID is already bound to an entity; count is
\* the counter after the fetch_update that admitted it.
ConflictingUuid(c, count, ents, pl) ==
    [keep |-> FALSE, outcome |-> "conflict", reason |-> "Conflicting UUID",
     client |-> [c EXCEPT !.disconnected = TRUE], count |-> count,
     player_list |-> pl, entities |-> ents, released |-> 0, applied |-> << >>]

\* ServerFull with a fetch_sub for the slot the client never got.
ServerFullReleases(c, count, ents, pl) ==
    [keep |-> FALSE, outcome |-> "full", reason |-> "The server is full!",
     client |-> [c EXCEPT !.disconnected = TRUE], count |-> fetch_sub(count),
     player_list |-> pl, entities |-> ents, released |-> 0, applied |-> << >>]

\* The rejection of a client the counter has no room for.
ServerFull(c, count, ents, pl) ==
    [keep |-> FALSE, outcome |-> "full", reason |-> "The server is full!",
     client |-> [c EXCEPT !.disconnected = TRUE], count |-> count,
     player_list |-> pl, entities |-> ents, released |-> 0, applied |-> << >>]

\* The match on the result ins of insert_with_uuid, for a client the counter
\* admitted; count is the counter after its fetch_update.
BindEntity(c, count, ents, pl, ins) ==
    IF ins.id = NULL
    THEN ConflictingUuid(c, count, ents, pl)
    ELSE AfterCreated(SpawnClient(c, ins.id), count, ins.entities, pl \cup {c.uuid})

\* The body of `if client.created_this_tick()`, adm being the result of the
\* fetch_update.
CreatedThisTick(c, count, ents, pl, adm) ==
    IF adm.is_err
    THEN ServerFull(c, count, ents, pl)
    ELSE BindEntity(c, adm.count, ents, pl, insert_with_uuid(ents, "Player", c.uuid))

\* The whole closure for one client.
RetainClient(c, count, ents, pl) ==
    IF c.created
    THEN CreatedThisTick(c, count, ents, pl, TryAdmit(count))
    ELSE AfterCreated(c, count, ents, pl)

\* Whether the closure bound the client to a new player entity.
Admitted(c, r) == c.created /\ r.outcome \in {"teardown", "kept", "panic"}

\* A call of the closure that finds nothing to do: a client of an earlier
\* tick, connected, with no event waiting.  The log leaves these calls out.
Quiet(c) == ~c.created /\ ~c.disconnected /\ c.events = << >>

\* What one call of the closure did, as recorded in log.
LogEntry(c, r, st, rest) ==
    [tag |-> c.tag, uuid |-> c.uuid, created |-> c.created,
     disconnected |-> c.disconnected, outcome |-> r.outcome, reason |-> r.reason,
     keep |-> r.keep,
     admitted |-> Admitted(c, r),
     count_before |-> st.count, count_after |-> r.count,
     active_before |-> Len(st.kept) + Cardinality({i \in 1..Len(rest) : ~rest[i].created}),
     ents_before |-> PlayerUuids(st.entities), ents_after |-> PlayerUuids(r.entities),
     roster_before |-> st.player_list, roster_after |-> r.player_list,
     pending |-> c.events, applied |-> r.applied, queue_after |-> r.client.events,
     entity_before |-> IF c.state \in DOMAIN st.entities
                       THEN << st.entities[c.state] >> ELSE << >>,
     entity_after |-> IF r.client.state \in DOMAIN r.entities
                      THEN << r.entities[r.client.state] >> ELSE << >>]

\* server.clients.retain(..): the closure on each client in turn.  A panic
\* ends the loop.
AfterCall(c, r, st, rest) ==
    [count |-> r.count, entities |-> r.entities, player_list |-> r.player_list,
     kept |-> IF r.keep THEN Append(st.kept, r.client) ELSE st.kept,
     log |-> IF Quiet(c) /\ r.outcome = "kept" THEN st.log
             ELSE Append(st.log, LogEntry(c, r, st, rest)),
     everActive |-> IF Admitted(c, r) THEN st.everActive \cup {c.tag}
                    ELSE st.everActive,
     releases |-> [st.releases EXCEPT ![c.tag] = @ + r.released]]

RECURSIVE RetainLoop(_, _)
RetainFrom(rest, st2, panic) ==
    IF panic THEN [st2 EXCEPT !.kept = st2.kept \o rest] ELSE RetainLoop(rest, st2)

RetainCall(c, rest, st, r) ==
    RetainFrom(rest, AfterCall(c, r, st, rest), r.outcome = "panic")

RetainLoop(rest, st) ==
    IF rest = << >> THEN st
    ELSE RetainCall(Head(rest), Tail(rest), st,
                    RetainClient(Head(rest), st.count, st.entities, st.player_list))

\* What the server does with the clients and entities after Config::update
\* and before the next tick: created_this_tick ends, entity events are sent
\* and cleared.
EndTickClient(c) == [c EXCEPT !.created = FALSE]

EndTickEntity(e) == [e EXCEPT !.events = << >>]

HasPanic(lg) == \E i \in 1..Len(lg) : lg[i].outcome = "panic"

(***************************************************************************)
(* Game::update: the cows.  The real numbers of the computation are kept   *)
(* as the expressions that produce them: an angle as its count of          *)
(* TurnUnits-ths of a turn, a point, a product or an arc tangent as the    *)
(* record of its operands.                                                 *)
(***************************************************************************)
\* server.shared.tick_rate(): ticks a second
tick_rate == 20

\* Angles are counted in units of 1 / (50 * tick_rate) of a turn: time * TAU * k
\* for time = tick / tick_rate and k = per50 / 50 is per50 * tick units.
TurnUnits == 50 * tick_rate

Angle(tick, per50) == (per50 * tick) % TurnUnits

\* Mat3::rotation_x(time * TAU * 0.1).rotated_y(time * TAU * 0.2)
\*     .rotated_z(time * TAU * 0.3)
Rotation(tick) == [x |-> Angle(tick, 5), y |-> Angle(tick, 10), z |-> Angle(tick, 15)]

\* 6.0 + ((time * TAU / 2.5).sin() + 1.0) / 2.0 * 10.0
Radius(tick) == [base |-> 6, sin_of |-> Angle(tick, 20), swing |-> 10]

\* The position of the first client, or Vec3::default().
PlayerPos(cls) == IF cls = << >> THEN Origin ELSE cls[1].position

\* Vec3::new(player_pos.x, player_pos.y + 1.6, player_pos.z), in tenths of a
\* block (positions are in halves).
EyePos(player_pos) == << 5 * player_pos[1], 5 * player_pos[2] + 16, 5 * player_pos[3] >>

\* fibonacci_spiral(n): the points of indices 0 .. n - 1, each a function of
\* its index and n.
fibonacci_spiral(n) == [k \in 1..n |-> [i |-> k - 1, n |-> n]]

\* [0.5, SPAWN_POS.y as f64 + 2.0, 0.5], in halves of a block
FormationCentre == << 1, 2 * (SPAWN_POS[2] + 2), 1 >>

\* rotated * radius + centre
Transformed(rotated, radius) ==
    [dir |-> rotated, radius |-> radius, centre |-> FormationCentre]

\* to_yaw_and_pitch((eye_pos - transformed).normalized())
Looking(eye_pos, transformed) == [from |-> transformed, to |-> eye_pos]

\* The body of the loop, rotated being p * rot.
PlaceCow(cow, rotated, radius, eye_pos) ==
    [cow EXCEPT
        !.position = Transformed(rotated, radius),
        !.yaw = [atan2_of |-> rotated, minus |-> 90],
        !.pitch = [pitch_of |-> Looking(eye_pos, Transformed(rotated, radius))],
        !.head_yaw = [yaw_of |-> Looking(eye_pos, Transformed(rotated, radius))]]

FormationCow(cow, p, rot, radius, eye_pos) ==
    PlaceCow(cow, [p |-> p, rot |-> rot], radius, eye_pos)

\* for (cow_id, p) in cows.zip(fibonacci_spiral(cows.len())), from the k-th
\* pair on; a cow that is not in server.entities ends it with a panic.
RECURSIVE FormationLoop(_, _, _, _, _, _, _)
FormationLoop(ents, cws, points, k, rot, radius, eye_pos) ==
    IF k > Len(cws) \/ k > Len(points)
    THEN [panic |-> FALSE, entities |-> ents, updated |-> k - 1]
    ELSE IF cws[k] \notin DOMAIN ents
    THEN [panic |-> TRUE, entities |-> ents, updated |-> k - 1]
    ELSE FormationLoop([ents EXCEPT ![cws[k]] =
                            FormationCow(@, points[k], rot, radius, eye_pos)],
                       cws, points, k + 1, rot, radius, eye_pos)

\* SpiralSize as server.entities.len(): the players count as points.
SpiralSizeEntities(ents, cws) == Cardinality(DOMAIN ents)

\* The number of points asked of fibonacci_spiral: server.state.cows.len().
SpiralSize(ents, cws) == Len(cws)

\* From `let time = ..` to the end of Game::update, cls being server.clients
\* as retain left it.
Formation(ents, cws, cls, tick) ==
    FormationLoop(ents, cws, fibonacci_spiral(SpiralSize(ents, cws)), 1,
                  Rotation(tick), Radius(tick), EyePos(PlayerPos(cls)))

\* What an update of the cows was given and how far it got.
Formed(f, cws, cls, tick) ==
    [tick |-> tick, n |-> Len(cws), eye_pos |-> EyePos(PlayerPos(cls)),
     updated |-> f.updated, panic |-> f.panic]

(***************************************************************************)
(* Actions                                                                 *)
(***************************************************************************)
NewClient(tag, uuid) ==
    [tag |-> tag, uuid |-> uuid, state |-> NULL, created |-> TRUE,
     disconnected |-> FALSE, events |-> << >>, world |-> NULL, flat |-> FALSE,
     game_mode |-> "Survival", position |-> Origin, has_player_list |-> FALSE,
     view_distance |-> 2, player |-> DefaultPlayer]

InsertAt(seq, pos, x) ==
    SubSeq(seq, 1, pos - 1) \o << x >> \o SubSeq(seq, pos, Len(seq))

\* The transport surfaces a new client with the given UUID; pos is its place
\* in the iteration order of server.clients, tag the name under which
\* everActive and releases follow it (0: with all the other clients of tag 0).
Accept(uuid, pos, tag) ==
    /\ ~panicked
    /\ pos \in 1..(Len(clients) + 1)
    /\ clients' = InsertAt(clients, pos, NewClient(tag, uuid))
    /\ nextSid' = IF tag = 0 THEN nextSid ELSE tag + 1
    /\ releases' = [s \in DOMAIN releases \cup {tag} |->
                       IF s \in DOMAIN releases THEN releases[s] ELSE 0]
    /\ log' = << >>
    /\ formed' = << >>
    /\ calls' = << >>
    /\ UNCHANGED << player_count, entities, player_list, panicked, ndisc, nevents,
                    everActive, thr, outstanding, TickVars >>

\* The transport finds the connection of client i closed.
TransportDisconnect(i) ==
    /\ ~panicked
    /\ i \in 1..Len(clients)
    /\ ~clients[i].disconnected
    /\ ndisc < MaxDisconnects
    /\ clients' = [clients EXCEPT ![i].disconnected = TRUE]
    /\ ndisc' = ndisc + 1
    /\ log' = << >>
    /\ formed' = << >>
    /\ calls' = << >>
    /\ UNCHANGED << player_count, entities, player_list, nextSid, panicked, nevents,
                    everActive, releases, thr, outstanding, TickVars >>

\* A packet of client i becomes an event in its queue.
Enqueue(i, ev) ==
    /\ ~panicked
    /\ i \in 1..Len(clients)
    /\ nevents < MaxEvents
    /\ clients' = [clients EXCEPT ![i].events = Append(@, ev)]
    /\ nevents' = nevents + 1
    /\ log' = << >>
    /\ formed' = << >>
    /\ calls' = << >>
    /\ UNCHANGED << player_count, entities, player_list, nextSid, panicked, ndisc,
                    everActive, releases, thr, outstanding, TickVars >>

\* A packet of client i becomes an event in its queue, as long as the queue
\* has room; the transport never runs out of packets.
Receive(i, ev) ==
    /\ ~panicked
    /\ i \in 1..Len(clients)
    /\ Len(clients[i].events) < MaxQueue
    /\ clients' = [clients EXCEPT ![i].events = Append(@, ev)]
    /\ log' = << >>
    /\ formed' = << >>
    /\ calls' = << >>
    /\ UNCHANGED << player_count, entities, player_list, nextSid, panicked, ndisc,
                    nevents, everActive, releases, thr, outstanding, TickVars >>

\* The server counts one more tick.
AdvanceTick ==
    /\ ~panicked
    /\ pc = "idle"
    /\ current_tick < MaxTick
    /\ current_tick' = current_tick + 1
    /\ log' = << >>
    /\ formed' = << >>
    /\ calls' = << >>
    /\ UNCHANGED << player_count, clients, entities, player_list, nextSid, panicked,
                    ndisc, nevents, everActive, releases, thr, outstanding, cows, pc,
                    cur >>

\* One tick: Game::update, then the server's own end of the tick.
Update ==
    /\ ~panicked
    /\ \E st \in {RetainLoop(clients,
                            [count |-> player_count, entities |-> entities,
                             player_list |-> player_list, kept |-> << >>,
                             log |-> << >>, everActive |-> everActive,
                             releases |-> releases])} :
          /\ player_count' = st.count
          /\ player_list' = st.player_list
          /\ clients' = [i \in 1..Len(st.kept) |-> EndTickClient(st.kept[i])]
          /\ log' = st.log
          /\ everActive' = st.everActive
          /\ releases' = st.releases
          /\ IF HasPanic(st.log)
             THEN /\ entities' = st.entities
                  /\ formed' = << >>
                  /\ panicked' = TRUE
             ELSE \E f \in {Formation(st.entities, cows, st.kept, current_tick)} :
                  /\ entities' = [i \in DOMAIN f.entities |->
                                     EndTickEntity(f.entities[i])]
                  /\ formed' = << Formed(f, cows, st.kept, current_tick) >>
                  /\ panicked' = f.panic
    /\ calls' = << >>
    /\ UNCHANGED << nextSid, ndisc, nevents, thr, outstanding, TickVars >>

(***************************************************************************)
(* Game::update call by call: the closure of retain on one client up to    *)
(* its loop, each call of client_event_boilerplate, and the update of the  *)
(* cows are steps of their own.                                            *)
(***************************************************************************)
\* Game::update is entered.
BeginUpdate ==
    /\ ~panicked
    /\ pc = "idle"
    /\ pc' = "retain"
    /\ cur' = 1
    /\ log' = << >>
    /\ formed' = << >>
    /\ calls' = << >>
    /\ UNCHANGED << player_count, clients, entities, player_list, nextSid, panicked,
                    ndisc, nevents, everActive, releases, thr, outstanding, cows,
                    current_tick >>

\* The client c as the closure leaves it when it gets to the loop over the
\* events: what r holds, with the events of c still waiting.
AtLoop(c, r) == [r.client EXCEPT !.events = c.events]

\* What the closure did for c by the time it returns false or gets to its
\* loop: RetainClient short of the calls of client_event_boilerplate.
BeforeLoop(c, count, ents, pl) ==
    RetainClient([c EXCEPT !.events = << >>], count, ents, pl)

\* retain calls the closure on the client at cur.  The closure returns false
\* (the client is dropped), panics, or gets to its loop.
ClosureOn(c, r) ==
    /\ player_count' = r.count
    /\ entities' = r.entities
    /\ player_list' = r.player_list
    /\ everActive' = IF Admitted(c, r) THEN everActive \cup {c.tag} ELSE everActive
    /\ releases' = [releases EXCEPT ![c.tag] = @ + r.released]
    /\ panicked' = (r.outcome = "panic")
    /\ IF r.keep
       THEN /\ clients' = [clients EXCEPT ![cur] = AtLoop(c, r)]
            /\ pc' = "drain"
       ELSE /\ clients' = SubSeq(clients, 1, cur - 1)
                              \o SubSeq(clients, cur + 1, Len(clients))
            /\ pc' = pc
    /\ calls' = << >>
    /\ UNCHANGED << nextSid, ndisc, nevents, log, formed, thr, outstanding, cows,
                    current_tick, cur >>

Closure ==
    /\ ~panicked
    /\ pc = "retain"
    /\ cur <= Len(clients)
    /\ \E r \in {BeforeLoop(clients[cur], player_count, entities, player_list)} :
          ClosureOn(clients[cur], r)

\* What one call of client_event_boilerplate did, as recorded in calls.
CallRecord(c, entity, evs, c2, e2) ==
    [tag |-> c.tag, event |-> evs, client_before |-> c, entity_before |-> entity,
     client_after |-> c2, entity_after |-> e2]

\* A call that found an event: the loop goes on.
CallSome(c, entity, r) ==
    /\ clients' = [clients EXCEPT ![cur] = r.client]
    /\ entities' = [entities EXCEPT ![c.state] = r.entity]
    /\ calls' = << CallRecord(c, entity, << r.event >>, r.client, r.entity) >>
    /\ UNCHANGED << pc, cur >>

\* A call that found the queue empty: pop_event()? returns None before
\* anything is written, the loop ends and the closure returns true.
CallNone(c, entity) ==
    /\ calls' = << CallRecord(c, entity, << >>, c, entity) >>
    /\ pc' = "retain"
    /\ cur' = cur + 1
    /\ UNCHANGED << clients, entities >>

\* CallOn with a loop that goes on after None.
CallOnNoExit(c, entity) ==
    IF c.events = << >>
    THEN UNCHANGED << clients, entities, calls, pc, cur >>
    ELSE CallSome(c, entity, client_event_boilerplate(c, entity))

\* One turn of `while client_event_boilerplate(client, entity).is_some() {}`.
CallOn(c, entity) ==
    IF c.events = << >>
    THEN CallNone(c, entity)
    ELSE CallSome(c, entity, client_event_boilerplate(c, entity))

Call ==
    /\ ~panicked
    /\ pc = "drain"
    /\ CallOn(clients[cur], entities[clients[cur].state])
    /\ UNCHANGED << player_count, player_list, nextSid, panicked, ndisc, nevents,
                    log, formed, everActive, releases, thr, outstanding, cows,
                    current_tick >>

\* retain is through: the cows are updated, Game::update returns and the
\* server ends the tick.
UpdateCows ==
    /\ ~panicked
    /\ pc = "retain"
    /\ cur > Len(clients)
    /\ \E f \in {Formation(entities, cows, clients, current_tick)} :
          /\ entities' = [i \in DOMAIN f.entities |-> EndTickEntity(f.entities[i])]
          /\ formed' = << Formed(f, cows, clients, current_tick) >>
          /\ panicked' = f.panic
    /\ clients' = [i \in 1..Len(clients) |-> EndTickClient(clients[i])]
    /\ pc' = "idle"
    /\ cur' = 0
    /\ calls' = << >>
    /\ UNCHANGED << player_count, player_list, nextSid, ndisc, nevents, log,
                    everActive, releases, thr, outstanding, cows, current_tick >>

(***************************************************************************)
(* Specifications                                                          *)
(***************************************************************************)
Init ==
    /\ player_count = 0
    /\ clients = << >>
    /\ entities = << >>
    /\ player_list = {}
    /\ nextSid = 1
    /\ panicked = FALSE
    /\ ndisc = 0
    /\ nevents = 0
    /\ log = << >>
    /\ everActive = {}
    /\ releases = << >>
    /\ thr = [t \in 1..NumThreads |-> [pc |-> "idle", prev |-> 0, last |-> "none"]]
    /\ outstanding = 0
    /\ cows = << >>
    /\ current_tick = 0
    /\ formed = << >>
    /\ pc = "idle"
    /\ cur = 0
    /\ calls = << >>

UuidsInUse == {clients[i].uuid : i \in 1..Len(clients)}

\* The lowest UUID no client has.
NextUuid == CHOOSE u \in 1..(Cardinality(UuidsInUse) + 1) : u \notin UuidsInUse

Pending == {i \in 1..Len(clients) : clients[i].created}

\* The server at full scale: clients arrive at the end of the iteration
\* order, with the lowest UUID not in use or one of the first MaxRepeat in use,
\* and all under one tag; the transport loses the newest client.
Next ==
    \/ \E u \in (UuidsInUse \cap 1..MaxRepeat) \cup {NextUuid} :
          /\ Cardinality(Pending) < MaxPending
          /\ Accept(u, Len(clients) + 1, 0)
    \/ \E i \in {Len(clients)} : TransportDisconnect(i)
    \/ Update

Spec == Init /\ [][Next]_vars

\* The server at full scale with several clients created in one tick: as
\* Next, with no disconnect.
NextBatch ==
    \/ \E u \in (UuidsInUse \cap 1..MaxRepeat) \cup {NextUuid} :
          /\ Cardinality(Pending) < MaxBatch
          /\ Accept(u, Len(clients) + 1, 0)
    \/ Update

SpecBatch == Init /\ [][NextBatch]_vars

\* A few clients, each with a tag of its own: they arrive anywhere in the
\* iteration order and the transport loses any of them.
NextSmall ==
    \/ \E u \in 1..NumUuids, pos \in 1..(Len(clients) + 1) :
          /\ nextSid <= MaxArrivals
          /\ Accept(u, pos, nextSid)
    \/ \E i \in 1..Len(clients) : TransportDisconnect(i)
    \/ Update

SpecSmall == Init /\ [][NextSmall]_vars

\* One client connected at a time, with events.
NextEvents ==
    \/ /\ clients = << >>
       /\ nextSid <= MaxSessions
       /\ Accept(1, 1, nextSid)
    \/ \E i \in 1..Len(clients) : TransportDisconnect(i)
    \/ \E i \in 1..Len(clients), ev \in ClientEvents : Enqueue(i, ev)
    \/ Update

SpecEvents == Init /\ [][NextEvents]_vars

\* One client connected at a time, with events, and the update call by call.
\* The transport acts between two updates.
NextSteps ==
    \/ /\ pc = "idle"
       /\ clients = << >>
       /\ nextSid <= MaxSessions
       /\ Accept(1, 1, nextSid)
    \/ \E i \in 1..Len(clients) : pc = "idle" /\ TransportDisconnect(i)
    \/ \E i \in 1..Len(clients), ev \in ClientEvents : pc = "idle" /\ Enqueue(i, ev)
    \/ BeginUpdate
    \/ Closure
    \/ Call
    \/ UpdateCows

SpecSteps == Init /\ [][NextSteps]_vars

\* Several clients at a time and a transport that goes on for ever: clients
\* connect, each with a UUID of its own, while there is room for them in the
\* model, packets keep arriving between the updates, and the update runs call
\* by call.  The thread that runs Game::update goes on until the update
\* returns: hence the fairness of its three steps.
LoopEvents == [kind : {"StartSneaking"}]

NextLoop ==
    \/ \E u \in {NextUuid} :
          /\ pc = "idle"
          /\ Len(clients) < MaxClients
          /\ Accept(u, Len(clients) + 1, 0)
    \/ \E i \in 1..Len(clients) : pc = "idle" /\ TransportDisconnect(i)
    \/ \E i \in 1..Len(clients), ev \in LoopEvents : pc = "idle" /\ Receive(i, ev)
    \/ BeginUpdate
    \/ Closure
    \/ Call
    \/ UpdateCows

SpecLoop ==
    /\ Init
    /\ [][NextLoop]_vars
    /\ WF_vars(Closure)
    /\ WF_vars(Call)
    /\ WF_vars(UpdateCows)

\* The server with its cows.  Game::init inserts n cows, each in the world
\* and with a UUID of its own, and keeps their handles in server.state.cows.
CowsAtInit(n) == [i \in 1..n |-> [NewEntity("Cow", -i) EXCEPT !.world = world_id]]

InitCows ==
    /\ player_count = 0
    /\ clients = << >>
    /\ \E n \in 0..MaxCows :
          /\ entities = CowsAtInit(n)
          /\ cows = [i \in 1..n |-> i]
    /\ player_list = {}
    /\ nextSid = 1
    /\ panicked = FALSE
    /\ ndisc = 0
    /\ nevents = 0
    /\ log = << >>
    /\ everActive = {}
    /\ releases = << >>
    /\ thr = [t \in 1..NumThreads |-> [pc |-> "idle", prev |-> 0, last |-> "none"]]
    /\ outstanding = 0
    /\ current_tick = 0
    /\ formed = << >>
    /\ pc = "idle"
    /\ cur = 0
    /\ calls = << >>

\* Clients come and go, each with a UUID of its own, and the first of them
\* sends events, while the server counts its ticks.
CowsEvents == [kind : {"MovePosition"}, position : {OtherPoint}, on_ground : {TRUE}]

NextCows ==
    \/ \E u \in {NextUuid} :
          /\ Len(clients) < MaxClients
          /\ Accept(u, Len(clients) + 1, 0)
    \/ \E i \in 1..Len(clients) : TransportDisconnect(i)
    \/ \E i \in {1}, ev \in CowsEvents : Enqueue(i, ev)
    \/ AdvanceTick
    \/ Update

SpecCows == InitCows /\ [][NextCows]_vars

\* client_event_boilerplate over its inputs: one client bound to its player
\* entity, as an update that admitted it leaves them, the entity in any pose;
\* events arrive and updates run call by call.
BoundClient == EndTickClient(SpawnClient(NewClient(1, 1), 1))

InitDispatch ==
    /\ player_count = 1
    /\ clients = << BoundClient >>
    /\ \E p \in Poses :
          entities = [i \in {1} |-> [NewEntity("Player", 1) EXCEPT !.pose = p]]
    /\ player_list = {1}
    /\ nextSid = 2
    /\ panicked = FALSE
    /\ ndisc = 0
    /\ nevents = 0
    /\ log = << >>
    /\ everActive = {1}
    /\ releases = [t \in {1} |-> 0]
    /\ thr = [t \in 1..NumThreads |-> [pc |-> "idle", prev |-> 0, last |-> "none"]]
    /\ outstanding = 0
    /\ cows = << >>
    /\ current_tick = 0
    /\ formed = << >>
    /\ pc = "idle"
    /\ cur = 0
    /\ calls = << >>

NextDispatch ==
    \/ \E ev \in ClientEvents : pc = "idle" /\ Enqueue(1, ev)
    \/ BeginUpdate
    \/ Closure
    \/ Call
    \/ UpdateCows

SpecDispatch == InitDispatch /\ [][NextDispatch]_vars

(***************************************************************************)
(* The admission counter under concurrent callers.  fetch_update loads the *)
(* counter, applies the closure, and stores the result with a              *)
(* compare-exchange that fails, and starts over from the value found, when *)
(* the counter changed in between.                                         *)
(***************************************************************************)
Others == << clients, entities, player_list, nextSid, panicked, ndisc, nevents,
             log, everActive, releases, formed, calls, TickVars >>

\* The load that starts a fetch_update.
FetchUpdateLoad(t) ==
    /\ thr[t].pc = "idle"
    /\ thr' = [thr EXCEPT ![t] = [pc |-> "loaded", prev |-> player_count,
                                  last |-> "none"]]
    /\ UNCHANGED << player_count, outstanding, Others >>

\* The closure returns None: fetch_update returns Err and the client is rejected.
FetchUpdateErr(t) ==
    /\ thr[t].pc = "loaded"
    /\ AdmitClosure(thr[t].prev) = -1
    /\ thr' = [thr EXCEPT ![t].pc = "idle", ![t].last = "err"]
    /\ UNCHANGED << player_count, outstanding, Others >>

\* FetchUpdateCas as a plain store of the closure's result: load and store
\* are no longer one atomic step.
FetchUpdateStore(t) ==
    /\ thr[t].pc = "loaded"
    /\ AdmitClosure(thr[t].prev) # -1
    /\ player_count' = AdmitClosure(thr[t].prev)
    /\ outstanding' = outstanding + 1
    /\ thr' = [thr EXCEPT ![t].pc = "idle", ![t].last = "ok"]
    /\ UNCHANGED Others

\* The compare-exchange of the closure's result against the value loaded.
FetchUpdateCas(t) ==
    /\ thr[t].pc = "loaded"
    /\ AdmitClosure(thr[t].prev) # -1
    /\ IF player_count = thr[t].prev
       THEN /\ player_count' = AdmitClosure(thr[t].prev)
            /\ outstanding' = outstanding + 1
            /\ thr' = [thr EXCEPT ![t].pc = "idle", ![t].last = "ok"]
       ELSE /\ thr' = [thr EXCEPT ![t].prev = player_count, ![t].last = "lost"]
            /\ UNCHANGED << player_count, outstanding >>
    /\ UNCHANGED Others

\* fetch_sub for an admission granted earlier.
Release(t) ==
    /\ thr[t].pc = "idle"
    /\ outstanding > 0
    /\ player_count' = fetch_sub(player_count)
    /\ outstanding' = outstanding - 1
    /\ thr' = [thr EXCEPT ![t].last = "released"]
    /\ UNCHANGED Others

NextAdmit ==
    \E t \in 1..NumThreads :
        \/ FetchUpdateLoad(t)
        \/ FetchUpdateErr(t)
        \/ FetchUpdateCas(t)
        \/ Release(t)

SpecAdmit == Init /\ [][NextAdmit]_vars

(***************************************************************************)
(* Properties                                                              *)
(***************************************************************************)
\* The clients the update loop has kept: those of an earlier tick.
Active == {i \in 1..Len(clients) : ~clients[i].created}

ActiveUuids == {clients[i].uuid : i \in Active}

Tags == {clients[i].tag : i \in 1..Len(clients)}

LogEntries == {log[i] : i \in 1..Len(log)}

\* An entry of a client that got to `if client.is_disconnected()`.
PastAdmission(e) == e.outcome \notin {"full", "conflict"}

\* C1: in every state, and at every call of the closure during an update, the
\* number of Active clients is at most MAX_PLAYERS.
C1_ActiveWithinCapacity ==
    /\ Cardinality(Active) <= MAX_PLAYERS
    /\ \A e \in LogEntries :
          /\ e.active_before <= MAX_PLAYERS
          /\ e.admitted /\ e.keep => e.active_before + 1 <= MAX_PLAYERS

C1_Witness ==
    /\ Cardinality(Active) = MAX_PLAYERS
    /\ \E e \in LogEntries : e.outcome = "full"

\* C2 (as claimed): a client rejected for a conflicting UUID is disconnected
\* with that reason and dropped, the registry keeps the one entity of that
\* UUID, and the counter is back at what it was before the client was admitted.
C2_ConflictReleasesSlot ==
    \A e \in LogEntries :
        e.outcome = "conflict" =>
            /\ e.reason = "Conflicting UUID"
            /\ ~e.keep
            /\ e.ents_after = e.ents_before
            /\ e.uuid \in e.ents_after
            /\ e.count_after = e.count_before

\* C3: fetch_sub has run once for every client that was bound to an entity and
\* is gone, and never for a client that is still there or was never bound.
C3_ReleasedExactlyOnce ==
    \A t \in DOMAIN releases :
        /\ releases[t] <= 1
        /\ t \notin everActive => releases[t] = 0
        /\ t \in everActive => releases[t] = (IF t \in Tags THEN 0 ELSE 1)

C3_Witness ==
    /\ \E e \in LogEntries :
          e.outcome = "teardown" /\ e.created /\ releases[e.tag] = 1
    /\ \E t \in DOMAIN releases :
          t \notin everActive /\ t \notin Tags /\ releases[t] = 0
    /\ \E t \in DOMAIN releases : t \in everActive /\ t \in Tags

\* C4: the player list holds exactly the UUIDs of the Active clients; a call of
\* the closure adds the UUID of a client it admits and keeps, removes the UUID
\* of a client it tears down, and changes nothing otherwise.
C4_RosterIsActive ==
    /\ player_list = ActiveUuids
    /\ \A e \in LogEntries :
          e.roster_after =
              CASE e.outcome = "teardown" -> e.roster_before \ {e.uuid}
                [] e.outcome = "kept" /\ e.admitted -> e.roster_before \cup {e.uuid}
                [] OTHER -> e.roster_before

C4_Witness ==
    \E e \in LogEntries :
        /\ e.outcome = "conflict"
        /\ e.uuid \in player_list
        /\ \E f \in LogEntries : f.outcome = "teardown" /\ f.uuid \notin player_list

\* C5: player entities and Active clients correspond one to one: as many
\* entities as Active clients, no UUID on two entities, the handle of every
\* Active client resolves to the entity of its UUID, and no update has failed
\* with "missing player entity".
C5_EntitiesMatchActive ==
    /\ Cardinality({i \in DOMAIN entities : entities[i].kind = "Player"})
          = Cardinality(Active)
    /\ \A i, j \in DOMAIN entities : entities[i].uuid = entities[j].uuid => i = j
    /\ \A i \in Active :
          /\ clients[i].state \in DOMAIN entities
          /\ entities[clients[i].state].uuid = clients[i].uuid
    /\ \A i, j \in Active : clients[i].state = clients[j].state => i = j
    /\ ~panicked
    /\ \A e \in LogEntries : e.outcome # "panic"

C5_Witness ==
    /\ Cardinality(Active) = 2
    /\ Cardinality(DOMAIN entities) = 2
    /\ \E e \in LogEntries : e.outcome = "conflict"

\* C6: under any interleaving of concurrent fetch_update and fetch_sub calls
\* the counter equals the number of admissions granted and not released (a
\* call granted an admission added exactly one, from a value below
\* MAX_PLAYERS; a call that returned Err or lost its compare-exchange changed
\* nothing), and it never exceeds MAX_PLAYERS.
C6_AtomicAdmission ==
    /\ player_count = outstanding
    /\ player_count <= MAX_PLAYERS
    /\ \A t \in 1..NumThreads :
          thr[t].last = "ok" => thr[t].prev < MAX_PLAYERS

\* Two callers loaded the counter with one slot left; one was admitted, the
\* other lost its compare-exchange and holds the full counter.
C6_Witness ==
    \E t, u \in 1..NumThreads :
        /\ t # u
        /\ thr[t].last = "ok" /\ thr[t].prev = MAX_PLAYERS - 1
        /\ thr[u].last = "lost" /\ thr[u].prev = MAX_PLAYERS
        /\ player_count = MAX_PLAYERS

\* C7: a client created while MAX_PLAYERS clients are Active is rejected with
\* "The server is full!" and dropped in that update, and its rejection leaves
\* the counter (at MAX_PLAYERS), the entities and the player list as they were.
C7_ServerFullRejects ==
    \A e \in LogEntries :
        e.created /\ e.active_before = MAX_PLAYERS =>
            /\ e.outcome = "full"
            /\ e.reason = "The server is full!"
            /\ ~e.keep
            /\ e.count_before = MAX_PLAYERS
            /\ e.count_after = MAX_PLAYERS
            /\ e.ents_after = e.ents_before
            /\ e.roster_after = e.roster_before

C7_Witness ==
    /\ \E e \in LogEntries :
          e.created /\ e.active_before = MAX_PLAYERS /\ e.outcome = "full"
    /\ player_count = MAX_PLAYERS
    /\ Cardinality(Active) = MAX_PLAYERS
    /\ Cardinality(DOMAIN entities) = MAX_PLAYERS

\* C8: a client found disconnected by the update has none of its waiting events
\* applied, and at the end of that call its entity and its player list entry
\* are gone, the counter is one below what it was once the client was
\* admitted, and the client is dropped.
C8_DisconnectBeforeEvents ==
    \A e \in LogEntries :
        e.disconnected /\ PastAdmission(e) =>
            /\ e.outcome = "teardown"
            /\ e.applied = << >>
            /\ ~e.keep
            /\ e.tag \notin Tags
            /\ e.uuid \notin e.ents_after
            /\ e.entity_after = << >>
            /\ e.uuid \notin e.roster_after
            /\ e.count_after = e.count_before + (IF e.admitted THEN 1 ELSE 0) - 1

C8_Witness ==
    \E e \in LogEntries :
        /\ e.outcome = "teardown"
        /\ ~e.created
        /\ Len(e.pending) = 2
        /\ e.entity_before # << >>
        /\ entities = << >>
        /\ player_list = {}
        /\ player_count = 0

\* C9: a client that is not disconnected, of an earlier tick or admitted in
\* this one, has all its waiting events applied, oldest first and each once;
\* its queue is empty afterwards and the client is kept.
C9_DrainsInOrder ==
    \A e \in LogEntries :
        ~e.disconnected /\ PastAdmission(e) =>
            /\ e.outcome = "kept"
            /\ e.applied = e.pending
            /\ e.queue_after = << >>
            /\ e.keep
            /\ \E i \in Active : clients[i].tag = e.tag /\ clients[i].events = << >>

C9_Witness ==
    \E e \in LogEntries :
        /\ e.outcome = "kept"
        /\ e.admitted
        /\ Len(e.pending) = 2
        /\ e.pending[1] # e.pending[2]
        /\ e.applied = e.pending

\* C10: the skin parts and the main arm of an Active client's own Player data
\* equal those of its entity's tracked Player data.
C10_SelfViewIsPublicView ==
    \A i \in Active :
        clients[i].state \in DOMAIN entities =>
            clients[i].player = entities[clients[i].state].player

C10_Witness ==
    \E i \in Active :
        /\ clients[i].state \in DOMAIN entities
        /\ clients[i].player = entities[clients[i].state].player
        /\ clients[i].player.main_arm = Left
        /\ clients[i].player.skin = SkinParts
        /\ \E e \in LogEntries : Len(e.applied) = 2

\* The calls of client_event_boilerplate on the entity of a player.
Calls == {calls[i] : i \in 1..Len(calls)}

EventKind(k) == IF k.event = << >> THEN "None" ELSE k.event[1].kind

\* C11: a call of client_event_boilerplate changes the pose only in two
\* cases: StartSneaking found in Standing leaves Sneaking, StopSneaking found
\* in Sneaking leaves Standing.  In any other pose these two events, and in
\* any pose every other event, leave the pose as it was.
C11_PoseToggles ==
    \A k \in Calls :
        k.entity_after.pose =
            CASE EventKind(k) = "StartSneaking" /\ k.entity_before.pose = "Standing"
                    -> "Sneaking"
              [] EventKind(k) = "StopSneaking" /\ k.entity_before.pose = "Sneaking"
                    -> "Standing"
              [] OTHER -> k.entity_before.pose

\* StopSneaking found in a pose that is neither Standing nor Sneaking, after a
\* StartSneaking that changed nothing either.
C11_Witness ==
    \E k \in Calls :
        /\ EventKind(k) = "StopSneaking"
        /\ k.entity_before.pose = "Swimming"
        /\ k.entity_after.pose = "Swimming"
        /\ k.client_after.events = << >>
        /\ nevents = 2

\* C12 (as claimed): the entity of every Active client is in the world of the
\* client, however many events the updates so far found waiting, none
\* included; and a call that finds the entity in that world leaves it there.
C12_WorldResynced ==
    /\ \A i \in Active :
          clients[i].state \in DOMAIN entities =>
              entities[clients[i].state].world = clients[i].world
    /\ \A e \in LogEntries :
          /\ e.outcome = "kept"
          /\ e.entity_before # << >>
          /\ e.entity_before[1].world = world_id
          => e.entity_after[1].world = world_id

\* server.clients without the client at p.
Without(cls, p) == SubSeq(cls, 1, p - 1) \o SubSeq(cls, p + 1, Len(cls))

\* What retain would do from the present state on the clients cls.
Retained(cls) ==
    RetainLoop(cls, [count |-> player_count, entities |-> entities,
                     player_list |-> player_list, kept |-> << >>, log |-> << >>,
                     everActive |-> everActive, releases |-> releases])

\* Whether an update from the present state would reject the client at p.
Rejected(st, c) ==
    RetainClient(c, st.count, st.entities, st.player_list).outcome
        \in {"full", "conflict"}

WouldReject(p) == Rejected(Retained(SubSeq(clients, 1, p - 1)), clients[p])

\* What an update leaves of the clients, the entities and the player list,
\* and whether it got to its end.
Remains(st, f) ==
    [clients |-> st.kept, entities |-> f.entities, player_list |-> st.player_list,
     done |-> ~HasPanic(st.log) /\ ~f.panic]

RemainsOf(st) == Remains(st, Formation(st.entities, cows, st.kept, current_tick))

\* C13 (as claimed): whenever the update would reject a client (server full,
\* conflicting UUID), it leaves every other client, the entities and the
\* player list as the update of the same state without that client would,
\* and it runs to its end, the update of the cows included.
C13_RejectionIsolated ==
    \A p \in 1..Len(clients) :
        clients[p].created /\ WouldReject(p) =>
            /\ RemainsOf(Retained(clients)) = RemainsOf(Retained(Without(clients, p)))
            /\ RemainsOf(Retained(clients)).done

\* C14 (as claimed): between two updates the counter, and with it the
\* online_players figure of the status response, equals the number of Active
\* clients.
C14_CountIsActive ==
    /\ player_count = Cardinality(Active)
    /\ server_list_ping(player_count).online_players = Cardinality(Active)

\* C15 (as claimed): a client is rejected with "The server is full!" only
\* when MAX_PLAYERS clients are Active at the moment the closure is called on
\* it; with fewer, a client whose UUID is not in use is admitted and kept.
C15_FullOnlyAtCapacity ==
    \A e \in LogEntries :
        /\ e.outcome = "full" => e.active_before = MAX_PLAYERS
        /\ (/\ e.created
            /\ ~e.disconnected
            /\ e.active_before < MAX_PLAYERS
            /\ e.uuid \notin e.ents_before)
           => e.admitted /\ e.keep

\* The counter when the closure gets to `if client.is_disconnected()`.
CountAtTest(e) == e.count_before + (IF e.admitted THEN 1 ELSE 0)

\* C16 (as claimed): a fetch_sub at counter 0 leaves 0, and the counter is
\* always within 0 .. MAX_PLAYERS.
C16_ReleaseSaturates ==
    /\ player_count \in 0..MAX_PLAYERS
    /\ player_count = 0 => fetch_sub(player_count) = 0

\* C16 (amended): fetch_sub wraps (at 0 it gives the largest value of the
\* counter's type), but the update never gets to it at 0: every teardown
\* finds the counter at 1 or more and leaves it one lower, and the counter is
\* always within 0 .. MAX_PLAYERS.
C16_ReleaseAboveZero ==
    /\ fetch_sub(0) = UsizeRange - 1
    /\ player_count \in 0..MAX_PLAYERS
    /\ \A e \in LogEntries :
          /\ e.count_before \in 0..MAX_PLAYERS
          /\ e.count_after \in 0..MAX_PLAYERS
          /\ e.outcome = "teardown" =>
                /\ CountAtTest(e) >= 1
                /\ e.count_after = CountAtTest(e) - 1

\* A teardown that brings the counter down to 0: the client was admitted by
\* the same call of the closure, from a counter at 0.
C16_Witness ==
    \E e \in LogEntries :
        /\ e.outcome = "teardown"
        /\ e.admitted
        /\ e.count_before = 0
        /\ e.count_after = 0
        /\ player_count = 0

\* The fields of the entity that the row of an event names.
Written(kind) ==
    CASE kind = "SettingsChanged" -> {"player"}
      [] kind = "MovePosition" -> {"position", "on_ground"}
      [] kind = "MovePositionAndRotation" ->
            {"position", "yaw", "head_yaw", "pitch", "on_ground"}
      [] kind = "MoveRotation" -> {"yaw", "head_yaw", "pitch", "on_ground"}
      [] kind = "MoveOnGround" -> {"on_ground"}
      [] kind \in {"StartSneaking", "StopSneaking"} -> {"pose"}
      [] kind \in {"StartSprinting", "StopSprinting"} -> {"sprinting"}
      [] kind = "ArmSwing" -> {"events"}
      [] OTHER -> {}

\* The fields of the entity that differ before and after a call.
Changed(k) ==
    {f \in DOMAIN k.entity_before : k.entity_after[f] # k.entity_before[f]}

SwingOf(hand) == IF hand = "Main" THEN "SwingMainHand" ELSE "SwingOffHand"

\* C17: a call of client_event_boilerplate changes, of the entity, only
\* fields that the row of its event names, and the world, which it sets to
\* the client's after any event; of the client, it takes the event off the
\* queue and, for SettingsChanged only, writes the view distance and the
\* Player data.  ArmSwing appends the animation event of its hand to the
\* entity's events and nothing else.  A call that finds no event changes
\* nothing.
C17_EventFrame ==
    \A k \in Calls :
        IF k.event = << >>
        THEN k.entity_after = k.entity_before /\ k.client_after = k.client_before
        ELSE /\ Changed(k) \subseteq Written(EventKind(k)) \cup {"world"}
             /\ k.entity_after.world = k.client_before.world
             /\ EventKind(k) # "SettingsChanged" =>
                    k.client_after = [k.client_before EXCEPT !.events = Tail(@)]
             /\ EventKind(k) = "ArmSwing" =>
                    k.entity_after.events
                        = Append(k.entity_before.events, SwingOf(k.event[1].hand))

\* The off hand swung by an entity that a MovePosition moved before.
C17_Witness ==
    \E k \in Calls :
        /\ EventKind(k) = "ArmSwing"
        /\ k.event[1].hand = "Off"
        /\ k.entity_before.position = OtherPoint
        /\ k.entity_before.events = << >>
        /\ k.entity_after.events = << "SwingOffHand" >>
        /\ Changed(k) = {"events"}

\* The entities of the players.
PlayerEntities == {i \in DOMAIN entities : entities[i].kind = "Player"}

\* C18: the head yaw of every player entity equals its yaw, in every state
\* and after every call of client_event_boilerplate.
C18_HeadYawIsYaw ==
    /\ \A i \in PlayerEntities : entities[i].head_yaw = entities[i].yaw
    /\ \A k \in Calls : k.entity_after.head_yaw = k.entity_after.yaw

\* A MoveRotation on an entity that a MovePositionAndRotation turned before.
C18_Witness ==
    \E k \in Calls :
        /\ EventKind(k) = "MoveRotation"
        /\ k.entity_before.yaw = 90
        /\ k.entity_before.head_yaw = 90
        /\ k.entity_after.yaw = 180
        /\ k.entity_after.head_yaw = 180

CowsOfFreshServer(n, tick, eye_pos) ==
    FormationLoop(CowsAtInit(n), [i \in 1..n |-> i], fibonacci_spiral(n), 1,
                  Rotation(tick), Radius(tick), eye_pos).entities

\* C20: the cows are in server.entities for good, each under its handle, and
\* no update fails with "missing cow"; an update writes all of them (none when
\* there is none), and leaves each cow exactly as the update of a server with
\* no client and no event so far leaves it at the same tick with the same
\* eye position.
C20_CowsDependOnInputsOnly ==
    /\ ~panicked
    /\ \A i \in 1..Len(cows) :
          cows[i] \in DOMAIN entities /\ entities[cows[i]].kind = "Cow"
    /\ \A i \in 1..Len(formed) :
          /\ ~formed[i].panic
          /\ formed[i].n = Len(cows)
          /\ formed[i].updated = Len(cows)
          /\ formed[i].tick = current_tick
          /\ \A j \in 1..Len(cows) :
                entities[cows[j]]
                    = CowsOfFreshServer(Len(cows), formed[i].tick,
                                        formed[i].eye_pos)[j]

\* An update at a later tick with two cows, one client torn down and another
\* kept, whose position gives the eye position.
C20_Witness ==
    /\ Len(cows) = 2
    /\ Len(formed) = 1
    /\ formed[1].tick = 1
    /\ formed[1].updated = 2
    /\ formed[1].eye_pos = EyePos(SpawnPoint)
    /\ Len(clients) = 1
    /\ \E e \in LogEntries : e.outcome = "teardown"

====
